---- MODULE Spec2Model ----
(***************************************************************************)
(* Red Roof Company BattleID backend: an Express server over a PostgreSQL  *)
(* store.  Three variants of the server are modelled:                      *)
(*   "server"   - src/server.js          (legacy CRUD, cors() with no      *)
(*                                         options, no bootstrap)          *)
(*   "part_000" - src/unnamed/part_000   (legacy CRUD + ensureIdSequence)  *)
(*   "part_001" - src/unnamed/part_001   (five tables, initTables, CORS    *)
(*                                         allow-list)                     *)
(* The store is modelled by what the SQL statements of the source do:      *)
(* tables are sets of rows, SERIAL columns draw from sequences (a value    *)
(* drawn by a failed INSERT is not given back), primary keys, NOT NULL,    *)
(* CHECK and FOREIGN KEY constraints make a statement fail.                *)
(***************************************************************************)
EXTENDS Integers, Sequences, FiniteSets, TLC

\* ---------------------------------------------------------------- bounds
\* battle_ids_id_seq is not drawn from once it has passed MaxOps
MaxOps == 2
\* INSERTs of part_001 that reach the SERIAL sequence of their table
MaxInserts == 3
\* largest pre-existing operative id in the pure sequence-repair specification
MaxRepairId == 7

\* ------------------------------------------------------- program constants
\* commendations_count SMALLINT
SmallintMax == 32767

NULL == "NULL"
Names == {"a", "b"}
IdParams == 1..MaxOps

\* const allowedOrigins = [...]   (the comma after the second entry is missing
\* in the source; the three entries are taken as the list that was meant)
allowedOrigins ==
  { "https://redroofcomp.up.railway.app",
    "http://localhost:3000",
    "database4-production.up.railway.app" }

\* the Origin header of a request: absent, allow-listed, or foreign
NoOrigin == "undefined"
Origins == {NoOrigin, "http://localhost:3000", "https://evil.example"}

\* the CREATE TABLE statements of initTables, in the order they are issued
TableOrder ==
  << "battle_ids", "commendations", "rank_changes", "awards_catalog", "awards" >>

VARIABLES
  variant,        \* which server file is running
  tables,         \* tables that exist in the store
  battle_ids,     \* rows [id, name, commendations_count]
  commendations,  \* rows [id, battle_id, level]
  rank_changes,   \* rows [id, battle_id, change_type]
  awards_catalog, \* rows [id, code]
  awards,         \* rows [id, battle_id, award_id]
  seqExists,      \* battle_ids_id_seq exists
  idDefault,      \* battle_ids.id has DEFAULT nextval('battle_ids_id_seq')
  seqNext,        \* the value the next nextval('battle_ids_id_seq') returns
  serial,         \* next value of the SERIAL sequence of the other tables
  boot,           \* bootstrap routine of this process: pending, done, failed
  inflight,       \* commendation grants between their two statements
  resp,           \* the response last sent
  granted,        \* history: per operative id, grants answered with the row
  issued,         \* history: ids given to the operatives created while no
                  \*          sequence repair was pending
  lastIssued      \* history: id given to the last operative created since
                  \*          the last completed sequence repair (0: none)

dbvars ==
  << tables, battle_ids, commendations, rank_changes, awards_catalog, awards,
     seqExists, idDefault, seqNext, serial >>
histvars == << granted, issued, lastIssued >>
vars ==
  << variant, tables, battle_ids, commendations, rank_changes, awards_catalog,
     awards, seqExists, idDefault, seqNext, serial, boot, inflight, resp,
     granted, issued, lastIssued >>

\* ---------------------------------------------------------------- helpers
Max(S) == CHOOSE m \in S : \A x \in S : x <= m
Ids(rows) == {r.id : r \in rows}
Row(id, name, cc) == [id |-> id, name |-> name, commendations_count |-> cc]
Resp(method, status, body) == [method |-> method, status |-> status, body |-> body]
NoResp == Resp("none", 0, "none")
\* mutant: the catch block answers without res.status(500)
Err200(method) == Resp(method, 200, "error")

\* catch (err) { res.status(500).json({ error: ... }) }
Err500(method) == Resp(method, 500, "error")

\* mutant: the id column carries no primary key
PrimaryKeyOff(rows, id) == TRUE

\* id ... PRIMARY KEY: an INSERT of an id that is already stored fails
PrimaryKeyOk(rows, id) == id \notin Ids(rows)

\* battle_id INTEGER NOT NULL REFERENCES battle_ids(id)
ForeignKeyOk(parents, id) == id \in Ids(parents)

\* mutant: the foreign keys carry no ON DELETE CASCADE
CascadeNone(rows, id) == rows

\* ON DELETE CASCADE: the rows of a dependent table that survive DELETE of id
Cascade(rows, id) == {r \in rows : r.battle_id # id}

\* level SMALLINT NOT NULL CHECK (level IN (1,2,3))
LevelOk(level) == level \in {1, 2, 3}

\* change_type TEXT NOT NULL CHECK (change_type IN ('promotion','demotion'))
ChangeTypeOk(t) == t \in {"promotion", "demotion"}

\* cors origin callback: no Origin header, or an allow-listed one, passes.
\* server.js and part_000 install cors() without options: every origin passes.
OriginAllowed(o) ==
  IF variant = "part_001"
  THEN o = NoOrigin \/ o \in allowedOrigins
  ELSE TRUE
\* ------------------------------------------------------------------- Init
\* part_001 starts against a fresh store; initTables creates the tables.
InitCurrent ==
  /\ variant = "part_001"
  /\ tables = {}
  /\ battle_ids = {}
  /\ seqExists = FALSE /\ idDefault = FALSE /\ seqNext = 1
  /\ boot = "pending"

\* server.js and part_000 create no table: battle_ids exists already, with
\* rows that may have been loaded with explicit ids, so that the sequence (if
\* there is one) may lag behind the stored ids.
InitLegacy ==
  /\ variant \in {"server", "part_000"}
  /\ tables = {"battle_ids"}
  /\ \E S \in SUBSET IdParams : battle_ids = {Row(i, "a", 0) : i \in S}
  /\ seqExists \in BOOLEAN
  /\ idDefault = seqExists
  /\ seqNext \in (IF seqExists THEN 1..(MaxOps + 1) ELSE {1})
  /\ boot = IF variant = "part_000" THEN "pending" ELSE "none"

InitRest ==
  /\ commendations = {} /\ rank_changes = {} /\ awards_catalog = {}
  /\ awards = {}
  /\ serial = [t \in {"commendations", "rank_changes", "awards_catalog", "awards"} |-> 1]
  /\ inflight = {}
  /\ resp = NoResp
  /\ granted = [i \in IdParams |-> 0]
  /\ issued = {}
  /\ lastIssued = 0

Init == (InitCurrent \/ InitLegacy) /\ InitRest

\* -------------------------------------------------------------- bootstrap
\* mutant: max_id := COALESCE(MAX(id), 0), without the + 1
EnsureIdSequenceResultAtMax(rows, exists, dflt) ==
  LET max_id == IF rows = {} THEN 0 ELSE Max(Ids(rows))
  IN  IF ~exists
      THEN [seqExists |-> TRUE, idDefault |-> TRUE, seqNext |-> max_id]
      ELSE [seqExists |-> TRUE, idDefault |-> dflt, seqNext |-> max_id]

\* mutant: CREATE SEQUENCE ... START max_id, but RESTART WITH max_id + 1
EnsureIdSequenceResultUneven(rows, exists, dflt) ==
  LET max_id == (IF rows = {} THEN 0 ELSE Max(Ids(rows))) + 1
  IN  IF ~exists
      THEN [seqExists |-> TRUE, idDefault |-> TRUE, seqNext |-> max_id]
      ELSE [seqExists |-> TRUE, idDefault |-> dflt, seqNext |-> max_id + 1]

\* The DO block of ensureIdSequence: max_id := COALESCE(MAX(id), 0) + 1; the
\* sequence is created at max_id and bound as the default of id when it does
\* not exist, and restarted at max_id when it does.
EnsureIdSequenceResult(rows, exists, dflt) ==
  LET max_id == (IF rows = {} THEN 0 ELSE Max(Ids(rows))) + 1
  IN  IF ~exists
      THEN [seqExists |-> TRUE, idDefault |-> TRUE, seqNext |-> max_id]
      ELSE [seqExists |-> TRUE, idDefault |-> dflt, seqNext |-> max_id]

\* the part of the store the bootstrap routine reads and writes
Store ==
  [tables |-> tables, battle_ids |-> battle_ids, seqExists |-> seqExists,
   idDefault |-> idDefault, seqNext |-> seqNext]

\* the store after the statement of ensureIdSequence has run
EnsureIdSequenceStore(st) ==
  LET r == EnsureIdSequenceResult(st.battle_ids, st.seqExists, st.idDefault)
  IN  [st EXCEPT !.seqExists = r.seqExists, !.idDefault = r.idDefault,
                 !.seqNext = r.seqNext]

\* ensureIdSequence(): one statement; an error is logged and swallowed.
EnsureIdSequence(ok) ==
  /\ variant = "part_000"
  /\ boot = "pending"
  /\ IF ok /\ "battle_ids" \in tables
     THEN LET r == EnsureIdSequenceStore(Store)
          IN  /\ seqExists' = r.seqExists
              /\ idDefault' = r.idDefault
              /\ seqNext' = r.seqNext
              /\ boot' = "done"
              /\ lastIssued' = 0
     ELSE /\ UNCHANGED << seqExists, idDefault, seqNext, lastIssued >>
          /\ boot' = "failed"
  /\ UNCHANGED << variant, tables, battle_ids, commendations, rank_changes,
                  awards_catalog, awards, serial, inflight, resp,
                  granted, issued >>

\* The tables that exist once the first k CREATE TABLE IF NOT EXISTS
\* statements of initTables have run.
InitTablesResult(tbls, k) == tbls \cup {TableOrder[i] : i \in 1..k}

\* the store after the first k statements of initTables; id SERIAL creates
\* battle_ids_id_seq, starting at 1, when it creates the table
InitTablesStore(st, k) ==
  LET t == InitTablesResult(st.tables, k)
      made == "battle_ids" \in t /\ "battle_ids" \notin st.tables
  IN  [st EXCEPT !.tables = t,
                 !.seqExists = made \/ @,
                 !.idDefault = made \/ @,
                 !.seqNext = IF made THEN 1 ELSE @]

\* initTables(): five awaited statements in one try; the first k succeed, a
\* failure of the next is logged and swallowed and the rest are not issued.
InitTables(k) ==
  /\ variant = "part_001"
  /\ boot = "pending"
  /\ LET r == InitTablesStore(Store, k)
     IN  /\ tables' = r.tables
         /\ seqExists' = r.seqExists
         /\ idDefault' = r.idDefault
         /\ seqNext' = r.seqNext
  /\ boot' = IF k = Len(TableOrder) THEN "done" ELSE "failed"
  /\ UNCHANGED << variant, battle_ids, commendations, rank_changes,
                  awards_catalog, awards, serial, inflight, resp,
                  histvars >>

\* a run of the bootstrap routine in which every statement succeeds
BootstrapResult(st) ==
  IF variant = "part_001" THEN InitTablesStore(st, Len(TableOrder))
  ELSE IF variant = "part_000" THEN EnsureIdSequenceStore(st)
  ELSE st

\* The process stops (crash, redeploy) and starts again: requests in flight
\* are lost, the store keeps its state, the bootstrap routine runs again.
Restart ==
  /\ inflight' = {}
  /\ resp' = NoResp
  /\ boot' = IF variant = "server" THEN "none" ELSE "pending"
  /\ UNCHANGED << variant, dbvars, histvars >>
\* --------------------------------------------------------------- handlers
\* A statement fails at the store when the connection or the statement's
\* input is bad (ok = FALSE: connection loss, a type error such as a
\* non-integer id) or when its table does not exist.
StatementFails(t, ok) == ~ok \/ t \notin tables

\* values drawn so far from the SERIAL sequences of the five tables
InsertsDone ==
  (seqNext - 1) + (serial["commendations"] - 1) + (serial["rank_changes"] - 1)
    + (serial["awards_catalog"] - 1) + (serial["awards"] - 1)

\* the un-awaited ensureIdSequence() of this process has not run yet
RepairPending == variant = "part_000" /\ boot = "pending"

\* what a handler that touches nothing but the response leaves alone
OnlyResp ==
  UNCHANGED << variant, dbvars, boot, inflight, histvars >>

\* ---- server.js / part_000 ----------------------------------------------
\* GET /  answers without a store statement
LegacyGetRoot ==
  /\ variant \in {"server", "part_000"}
  /\ resp' = Resp("GET", 200, "status")
  /\ OnlyResp

\* GET /api/battle
LegacyGetBattleList(ok) ==
  /\ variant \in {"server", "part_000"}
  /\ resp' = IF StatementFails("battle_ids", ok) THEN Err500("GET") ELSE Resp("GET", 200, "rows")
  /\ OnlyResp

\* POST /api/battle: the id comes from the column default; without a default
\* it is NULL and the primary key rejects it.
LegacyCreateBattle(name, ok) ==
  /\ variant \in {"server", "part_000"}
  /\ IF StatementFails("battle_ids", ok) \/ ~idDefault
     THEN /\ resp' = Err500("POST")
          /\ UNCHANGED << battle_ids, seqNext, issued, lastIssued >>
     ELSE /\ seqNext <= MaxOps
          /\ seqNext' = seqNext + 1
          /\ IF PrimaryKeyOk(battle_ids, seqNext)
             THEN /\ battle_ids' = battle_ids \cup {Row(seqNext, name, 0)}
                  /\ issued' = IF RepairPending THEN issued ELSE issued \cup {seqNext}
                  /\ lastIssued' = seqNext
                  /\ resp' = Resp("POST", 200, "row")
             ELSE /\ resp' = Err500("POST")
                  /\ UNCHANGED << battle_ids, issued, lastIssued >>
  /\ UNCHANGED << variant, tables, commendations, rank_changes, awards_catalog,
                  awards, seqExists, idDefault, serial, boot, inflight,
                  granted >>

\* PUT /api/battle/:id: UPDATE ... WHERE id=$8 RETURNING *; res.json(rows[0])
LegacyPutBattle(id, name, ok) ==
  /\ variant \in {"server", "part_000"}
  /\ IF StatementFails("battle_ids", ok)
     THEN resp' = Err500("PUT") /\ UNCHANGED battle_ids
     ELSE IF id \notin Ids(battle_ids)
     THEN resp' = Resp("PUT", 200, "empty") /\ UNCHANGED battle_ids
     ELSE /\ battle_ids' =
               {IF r.id = id THEN [r EXCEPT !.name = name] ELSE r : r \in battle_ids}
          /\ resp' = Resp("PUT", 200, "row")
  /\ UNCHANGED << variant, tables, commendations, rank_changes, awards_catalog,
                  awards, seqExists, idDefault, seqNext, serial, boot, inflight,
                  histvars >>

\* DELETE /api/battle/:id
LegacyDeleteBattle(id, ok) ==
  /\ variant \in {"server", "part_000"}
  /\ IF StatementFails("battle_ids", ok)
     THEN resp' = Err500("DELETE") /\ UNCHANGED battle_ids
     ELSE /\ battle_ids' = {r \in battle_ids : r.id # id}
          /\ resp' = Resp("DELETE", 200, "success")
  /\ UNCHANGED << variant, tables, commendations, rank_changes, awards_catalog,
                  awards, seqExists, idDefault, seqNext, serial, boot, inflight,
                  histvars >>

\* ---- part_001 ------------------------------------------------------------
\* GET /: SELECT NOW(); a failure is reported in the body, with status 200
GetRoot(ok) ==
  /\ variant = "part_001"
  /\ resp' = IF ok THEN Resp("GET", 200, "health") ELSE Resp("GET", 200, "db_false")
  /\ OnlyResp

\* GET /api/battle
GetBattleList(ok) ==
  /\ variant = "part_001"
  /\ resp' = IF StatementFails("battle_ids", ok) THEN Err500("GET") ELSE Resp("GET", 200, "rows")
  /\ OnlyResp

\* GET /api/battle/:id: res.json(result.rows[0])
GetBattleById(id, ok) ==
  /\ variant = "part_001"
  /\ resp' = IF StatementFails("battle_ids", ok) THEN Err500("GET")
             ELSE IF id \in Ids(battle_ids) THEN Resp("GET", 200, "row")
             ELSE Resp("GET", 200, "empty")
  /\ OnlyResp

\* POST /api/battle: id from the SERIAL default, name TEXT NOT NULL,
\* commendations_count from its DEFAULT 0
CreateBattle(name, ok) ==
  /\ variant = "part_001"
  /\ IF StatementFails("battle_ids", ok)
     THEN /\ resp' = Err500("POST")
          /\ UNCHANGED << battle_ids, seqNext, issued, lastIssued >>
     ELSE /\ seqNext <= MaxOps
          /\ InsertsDone < MaxInserts
          /\ seqNext' = seqNext + 1
          /\ IF name # NULL /\ PrimaryKeyOk(battle_ids, seqNext)
             THEN /\ battle_ids' = battle_ids \cup {Row(seqNext, name, 0)}
                  /\ issued' = IF RepairPending THEN issued ELSE issued \cup {seqNext}
                  /\ lastIssued' = seqNext
                  /\ resp' = Resp("POST", 200, "row")
             ELSE /\ resp' = Err500("POST")
                  /\ UNCHANGED << battle_ids, issued, lastIssued >>
  /\ UNCHANGED << variant, tables, commendations, rank_changes, awards_catalog,
                  awards, seqExists, idDefault, serial, boot, inflight,
                  granted >>

\* mutant: the UPDATE is an upsert, a PUT for an unknown id stores a row
PutBattleUpsert(id, name, ok) ==
  /\ variant = "part_001"
  /\ IF StatementFails("battle_ids", ok) \/ name = NULL
     THEN resp' = Err500("PUT") /\ UNCHANGED battle_ids
     ELSE /\ battle_ids' =
               {r \in battle_ids : r.id # id} \cup
               {Row(id, name, 0)}
          /\ resp' = Resp("PUT", 200, "row")
  /\ UNCHANGED << variant, tables, commendations, rank_changes, awards_catalog,
                  awards, seqExists, idDefault, seqNext, serial, boot, inflight,
                  histvars >>

\* PUT /api/battle/:id: the eleven body columns are replaced (name stands for
\* them); id, commendations_count and created_at are not in the SET list.
PutBattle(id, name, ok) ==
  /\ variant = "part_001"
  /\ IF StatementFails("battle_ids", ok)
     THEN resp' = Err500("PUT") /\ UNCHANGED battle_ids
     ELSE IF id \notin Ids(battle_ids)
     THEN resp' = Resp("PUT", 200, "empty") /\ UNCHANGED battle_ids
     ELSE IF name = NULL
     THEN resp' = Err500("PUT") /\ UNCHANGED battle_ids
     ELSE /\ battle_ids' =
               {IF r.id = id THEN [r EXCEPT !.name = name] ELSE r : r \in battle_ids}
          /\ resp' = Resp("PUT", 200, "row")
  /\ UNCHANGED << variant, tables, commendations, rank_changes, awards_catalog,
                  awards, seqExists, idDefault, seqNext, serial, boot, inflight,
                  histvars >>

\* DELETE /api/battle/:id: the dependent rows go with it (ON DELETE CASCADE)
DeleteBattle(id, ok) ==
  /\ variant = "part_001"
  /\ IF StatementFails("battle_ids", ok)
     THEN /\ resp' = Err500("DELETE")
          /\ UNCHANGED << battle_ids, commendations, rank_changes, awards >>
     ELSE /\ battle_ids' = {r \in battle_ids : r.id # id}
          /\ commendations' = Cascade(commendations, id)
          /\ rank_changes' = Cascade(rank_changes, id)
          /\ awards' = Cascade(awards, id)
          /\ resp' = Resp("DELETE", 200, "success")
  /\ UNCHANGED << variant, tables, awards_catalog, seqExists, idDefault,
                  seqNext, serial, boot, inflight, histvars >>
\* GET /api/awards/catalog
GetCatalog(ok) ==
  /\ variant = "part_001"
  /\ resp' = IF StatementFails("awards_catalog", ok) THEN Err500("GET") ELSE Resp("GET", 200, "rows")
  /\ OnlyResp

\* POST /api/awards/catalog: code TEXT UNIQUE, name TEXT NOT NULL
CreateCatalog(code, name, ok) ==
  /\ variant = "part_001"
  /\ IF StatementFails("awards_catalog", ok)
     THEN resp' = Err500("POST") /\ UNCHANGED << awards_catalog, serial >>
     ELSE /\ InsertsDone < MaxInserts
          /\ serial' = [serial EXCEPT !["awards_catalog"] = @ + 1]
          /\ IF name # NULL /\ code \notin {r.code : r \in awards_catalog}
             THEN /\ awards_catalog' = awards_catalog \cup
                       {[id |-> serial["awards_catalog"], code |-> code]}
                  /\ resp' = Resp("POST", 200, "row")
             ELSE resp' = Err500("POST") /\ UNCHANGED awards_catalog
  /\ UNCHANGED << variant, tables, battle_ids, commendations, rank_changes,
                  awards, seqExists, idDefault, seqNext, boot, inflight,
                  histvars >>

\* POST /api/awards/:battle_id: both foreign keys are checked by the store
GrantAward(battle_id, award_id, ok) ==
  /\ variant = "part_001"
  /\ IF StatementFails("awards", ok)
     THEN resp' = Err500("POST") /\ UNCHANGED << awards, serial >>
     ELSE /\ InsertsDone < MaxInserts
          /\ serial' = [serial EXCEPT !["awards"] = @ + 1]
          /\ IF ForeignKeyOk(battle_ids, battle_id) /\ ForeignKeyOk(awards_catalog, award_id)
             THEN /\ awards' = awards \cup
                       {[id |-> serial["awards"], battle_id |-> battle_id,
                         award_id |-> award_id]}
                  /\ resp' = Resp("POST", 200, "row")
             ELSE resp' = Err500("POST") /\ UNCHANGED awards
  /\ UNCHANGED << variant, tables, battle_ids, commendations, rank_changes,
                  awards_catalog, seqExists, idDefault, seqNext, boot, inflight,
                  histvars >>

\* GET /api/awards/:battle_id
GetAwards(battle_id, ok) ==
  /\ variant = "part_001"
  /\ resp' = IF StatementFails("awards", ok) THEN Err500("GET") ELSE Resp("GET", 200, "rows")
  /\ OnlyResp

\* POST /api/battle/:id/rank-change
RankChange(id, change_type, ok) ==
  /\ variant = "part_001"
  /\ IF StatementFails("rank_changes", ok)
     THEN resp' = Err500("POST") /\ UNCHANGED << rank_changes, serial >>
     ELSE /\ InsertsDone < MaxInserts
          /\ serial' = [serial EXCEPT !["rank_changes"] = @ + 1]
          /\ IF ForeignKeyOk(battle_ids, id) /\ ChangeTypeOk(change_type)
             THEN /\ rank_changes' = rank_changes \cup
                       {[id |-> serial["rank_changes"], battle_id |-> id,
                         change_type |-> change_type]}
                  /\ resp' = Resp("POST", 200, "row")
             ELSE resp' = Err500("POST") /\ UNCHANGED rank_changes
  /\ UNCHANGED << variant, tables, battle_ids, commendations, awards_catalog,
                  awards, seqExists, idDefault, seqNext, boot, inflight,
                  histvars >>

\* POST /api/battle/:id/commendation, first statement: INSERT INTO
\* commendations.  On success the handler awaits the second statement; on
\* failure the catch answers 500 and the UPDATE is never issued.
CommendationInsert(id, level, ok) ==
  /\ variant = "part_001"
  /\ IF StatementFails("commendations", ok)
     THEN resp' = Err500("POST") /\ UNCHANGED << commendations, serial, inflight >>
     ELSE /\ InsertsDone < MaxInserts
          /\ serial' = [serial EXCEPT !["commendations"] = @ + 1]
          /\ IF ForeignKeyOk(battle_ids, id) /\ LevelOk(level)
             THEN /\ commendations' = commendations \cup
                       {[id |-> serial["commendations"], battle_id |-> id,
                         level |-> level]}
                  /\ inflight' = inflight \cup
                       {[id |-> id, row |-> serial["commendations"]]}
                  /\ UNCHANGED resp
             ELSE resp' = Err500("POST") /\ UNCHANGED << commendations, inflight >>
  /\ UNCHANGED << variant, tables, battle_ids, rank_changes, awards_catalog,
                  awards, seqExists, idDefault, seqNext, boot,
                  histvars >>

\* POST /api/battle/:id/commendation, second statement: UPDATE battle_ids SET
\* commendations_count = commendations_count + 1 WHERE id=$1, then
\* res.json(result.rows[0]).  The UPDATE fails on a store failure or when the
\* SMALLINT overflows; the catch then answers 500 and the inserted row stays.
CommendationUpdate(req, ok) ==
  /\ variant = "part_001"
  /\ req \in inflight
  /\ inflight' = inflight \ {req}
  /\ IF \/ StatementFails("battle_ids", ok)
        \/ \E r \in battle_ids :
             r.id = req.id /\ r.commendations_count + 1 > SmallintMax
     THEN resp' = Err500("POST") /\ UNCHANGED << battle_ids, granted >>
     ELSE /\ battle_ids' =
               {IF r.id = req.id
                THEN [r EXCEPT !.commendations_count = @ + 1]
                ELSE r : r \in battle_ids}
          /\ granted' = [granted EXCEPT ![req.id] = @ + 1]
          /\ resp' = Resp("POST", 200, "row")
  /\ UNCHANGED << variant, tables, commendations, rank_changes, awards_catalog,
                  awards, seqExists, idDefault, seqNext, serial, boot,
                  issued, lastIssued >>

\* ------------------------------------------------------------ HTTP server
\* cors: the origin callback passed an Error, next(err) skips every route and
\* Express's default error handler answers 500.
CorsReject ==
  /\ resp' = Resp("any", 500, "cors")
  /\ OnlyResp

\* the routes of server.js / part_000
LegacyRoute ==
  \/ LegacyGetRoot
  \/ \E ok \in BOOLEAN : LegacyGetBattleList(ok)
  \/ \E name \in Names, ok \in BOOLEAN : LegacyCreateBattle(name, ok)
  \/ \E id \in IdParams, name \in Names, ok \in BOOLEAN : LegacyPutBattle(id, name, ok)
  \/ \E id \in IdParams, ok \in BOOLEAN : LegacyDeleteBattle(id, ok)

\* the routes of part_001
Route ==
  \/ \E ok \in BOOLEAN : GetRoot(ok)
  \/ \E ok \in BOOLEAN : GetBattleList(ok)
  \/ \E id \in IdParams, ok \in BOOLEAN : GetBattleById(id, ok)
  \/ \E name \in Names \cup {NULL}, ok \in BOOLEAN : CreateBattle(name, ok)
  \/ \E id \in IdParams, name \in Names \cup {NULL}, ok \in BOOLEAN :
       PutBattle(id, name, ok)
  \/ \E id \in IdParams, ok \in BOOLEAN : DeleteBattle(id, ok)
  \/ \E ok \in BOOLEAN : GetCatalog(ok)
  \/ \E name \in {"a", NULL}, ok \in BOOLEAN : CreateCatalog("c", name, ok)
  \/ \E b \in IdParams, a \in IdParams, ok \in BOOLEAN : GrantAward(b, a, ok)
  \/ \E b \in IdParams, ok \in BOOLEAN : GetAwards(b, ok)
  \/ \E id \in IdParams, t \in {"promotion", "bogus"}, ok \in BOOLEAN :
       RankChange(id, t, ok)
  \/ \E id \in IdParams, level \in {2, 4}, ok \in BOOLEAN :
       CommendationInsert(id, level, ok)

\* a request with Origin header o: the cors middleware, then the route
Http(o) ==
  \/ OriginAllowed(o) /\ (LegacyRoute \/ Route)
  \/ ~OriginAllowed(o) /\ CorsReject

\* app.listen follows the un-awaited bootstrap call, so requests are served
\* whatever the state of the bootstrap routine.
Request ==
  \/ {o \in Origins : OriginAllowed(o)} # {} /\ LegacyRoute
  \/ {o \in Origins : OriginAllowed(o)} # {} /\ Route
  \/ {o \in Origins : ~OriginAllowed(o)} # {} /\ CorsReject

Bootstrap ==
  \/ \E ok \in BOOLEAN : EnsureIdSequence(ok)
  \/ \E k \in 0..Len(TableOrder) : InitTables(k)

Continue == \E req \in inflight, ok \in BOOLEAN : CommendationUpdate(req, ok)

Next == Request \/ Bootstrap \/ Continue \/ Restart

Spec == Init /\ [][Next]_vars

\* ---------------------------------------------- sequence repair on its own
\* ensureIdSequence applied to a battle_ids table holding any set of ids up
\* to MaxRepairId, with the sequence absent or present at any value, and no
\* other statement.
InitRepair ==
  /\ variant = "part_000"
  /\ tables = {"battle_ids"}
  /\ \E S \in SUBSET (1..MaxRepairId) : battle_ids = {Row(i, "a", 0) : i \in S}
  /\ seqExists \in BOOLEAN
  /\ idDefault = seqExists
  /\ seqNext \in (IF seqExists THEN 1..(MaxRepairId + 1) ELSE {1})
  /\ boot = "pending"
  /\ InitRest

NextRepair == \E ok \in BOOLEAN : EnsureIdSequence(ok)

SpecRepair == InitRepair /\ [][NextRepair]_vars
\* ================================================================= claims
\* commendation rows that reference operative x
CommendationsOf(x) == {c \in commendations : c.battle_id = x}

\* C1: for every stored operative X (never deleted: part_001 reuses no id)
\* with no grant of its own in flight, after N grants for X were answered
\* with the created row, commendations_count of X is N and exactly N
\* commendation rows reference X.
C1_CountEqualsGrants ==
  variant = "part_001" =>
    \A r \in battle_ids :
      (\A q \in inflight : q.id # r.id) =>
        /\ r.commendations_count = granted[r.id]
        /\ Cardinality(CommendationsOf(r.id)) = granted[r.id]

\* C2: the grant is atomic: no reachable state holds a commendation row for
\* an existing operative without the matching increment of its
\* commendations_count.
C2_GrantAtomic ==
  \A r \in battle_ids :
    Cardinality(CommendationsOf(r.id)) = r.commendations_count

\* the id the generator produces next
NextVal == seqNext

\* C3: once ensureIdSequence has completed, with no intervening insert, the
\* generator exists, is the default of the id column, and the next id it
\* produces is max(S)+1 for the stored ids S, 1 for the empty table.
C3_RepairNextIsMaxPlusOne ==
  boot = "done" =>
    /\ seqExists
    /\ idDefault
    /\ NextVal = IF battle_ids = {} THEN 1 ELSE Max(Ids(battle_ids)) + 1

\* C3 witness: the stored ids are {3, 7, 2}, the repair has run, the next id
\* is 8.
C3_Witness ==
  /\ boot = "done"
  /\ Ids(battle_ids) = {2, 3, 7}
  /\ NextVal = 8

\* C4: in part_000 no API request reaches the store while the sequence
\* repair of this process has not completed: as long as the repair is
\* pending, no response other than that of GET / (which issues no
\* statement) has been sent.
C4_RepairBeforeTraffic ==
  (variant = "part_000" /\ boot = "pending") =>
    resp \in {NoResp, Resp("GET", 200, "status")}
\* C4 is violated by a request answered from the store before the repair.

\* ids that a step adds to battle_ids (given to a created operative)
NewIds == Ids(battle_ids') \ Ids(battle_ids)

\* no two stored operatives share an id
DistinctIds == \A r1, r2 \in battle_ids : r1.id = r2.id => r1 = r2

\* C5 (as stated): each created operative receives an id strictly greater
\* than the id of every operative created before it, so no id is issued
\* twice, whatever creates, updates, deletes, restarts and repairs happen.
\* Only operatives created while no sequence repair was pending are
\* compared, so that a violation does not rest on requests served before the
\* repair (C4).
C5_IdsMonotonicForever ==
  [][~RepairPending => \A i \in NewIds : \A j \in issued : i > j]_vars

\* C5 (amended): stored operative ids are pairwise distinct, and each created
\* operative receives an id strictly greater than that of every operative
\* created since the last completed sequence repair.
C5_IdsDistinctAndMonotonicBetweenRepairs ==
  /\ []DistinctIds
  /\ [][\A i \in NewIds : i > lastIssued]_vars

\* C5 witness: part_000 after a completed repair, two operatives created so
\* far, the last of them since that repair.
C5_Witness ==
  /\ variant = "part_000"
  /\ boot = "done"
  /\ Cardinality(issued) >= 2
  /\ lastIssued \in issued

\* C6: every commendation, rank-change and award-grant row references a
\* stored operative and every award-grant row a stored catalog entry, in
\* every reachable state: a delete of operative X leaves no row whose
\* battle_id is X, and an insert for a missing operative leaves no row.
C6_ReferentialIntegrity ==
  /\ \A c \in commendations \cup rank_changes \cup awards :
       c.battle_id \in Ids(battle_ids)
  /\ \A a \in awards : a.award_id \in Ids(awards_catalog)

\* C6 witness: operative 1 had a grant answered with its commendation row and
\* has since been deleted, and its commendation rows with it.
C6_Witness ==
  /\ granted[1] >= 1
  /\ 1 \notin Ids(battle_ids)
  /\ CommendationsOf(1) = {}
  /\ resp = Resp("DELETE", 200, "success")

\* C7: a second run of the bootstrap routine right after a first one changes
\* nothing: tables, rows and the generator are as the first run left them.
C7_BootstrapIdempotent ==
  LET s1 == BootstrapResult(Store)
  IN  BootstrapResult(s1) = s1

\* C7 witness: part_000 restarted after operatives were created, the repair
\* has run again and no request has been answered since: the store is what
\* one more run would make it.
C7_Witness ==
  /\ variant = "part_000"
  /\ issued # {}
  /\ boot = "done"
  /\ resp = NoResp
  /\ BootstrapResult(Store) = Store

\* the rows of the five tables
rowvars == << battle_ids, commendations, rank_changes, awards_catalog, awards >>

\* Resource handler steps in which the store statement fails: connection
\* loss or a type error (ok = FALSE), or a constraint violation.  They are
\* grouped by the method of the request they answer.
FailedGet ==
  \/ LegacyGetBattleList(FALSE)
  \/ GetBattleList(FALSE)
  \/ \E id \in IdParams : GetBattleById(id, FALSE)
  \/ GetCatalog(FALSE)
  \/ \E b \in IdParams : GetAwards(b, FALSE)

FailedPost ==
  \/ \E name \in Names : LegacyCreateBattle(name, FALSE)
  \/ \E name \in Names \cup {NULL} : CreateBattle(name, FALSE)
  \/ CreateBattle(NULL, TRUE)
  \/ \E name \in {"a", NULL} : CreateCatalog("c", name, FALSE)
  \/ CreateCatalog("c", NULL, TRUE)
  \/ \E b \in IdParams, a \in IdParams : GrantAward(b, a, FALSE)
  \/ \E b \in IdParams \ Ids(battle_ids), a \in IdParams : GrantAward(b, a, TRUE)
  \/ \E b \in IdParams, a \in IdParams \ Ids(awards_catalog) : GrantAward(b, a, TRUE)
  \/ \E id \in IdParams, t \in {"promotion", "bogus"} : RankChange(id, t, FALSE)
  \/ \E id \in IdParams : RankChange(id, "bogus", TRUE)
  \/ \E id \in IdParams \ Ids(battle_ids) : RankChange(id, "promotion", TRUE)
  \/ \E id \in IdParams, level \in {2, 4} : CommendationInsert(id, level, FALSE)
  \/ \E id \in IdParams : CommendationInsert(id, 4, TRUE)
  \/ \E id \in IdParams \ Ids(battle_ids) : CommendationInsert(id, 2, TRUE)
  \/ \E req \in inflight : CommendationUpdate(req, FALSE)

FailedPut ==
  \/ \E id \in IdParams, name \in Names : LegacyPutBattle(id, name, FALSE)
  \/ \E id \in IdParams, name \in Names \cup {NULL} : PutBattle(id, name, FALSE)
  \/ \E id \in Ids(battle_ids) : PutBattle(id, NULL, TRUE)

FailedDelete ==
  \/ \E id \in IdParams : LegacyDeleteBattle(id, FALSE)
  \/ \E id \in IdParams : DeleteBattle(id, FALSE)

FailedStatement ==
  \/ resp'.method = "GET" /\ FailedGet
  \/ resp'.method = "POST" /\ FailedPost
  \/ resp'.method = "PUT" /\ FailedPut
  \/ resp'.method = "DELETE" /\ FailedDelete

\* what C8 says of a step in which a handler's statement fails
Isolated ==
  /\ resp'.status = 500 /\ resp'.body = "error"
  /\ UNCHANGED rowvars
  /\ UNCHANGED << tables, seqExists, idDefault, boot >>
  /\ inflight' \subseteq inflight
  /\ Cardinality(inflight') >= Cardinality(inflight) - 1

\* a run of the bootstrap routine in which a statement fails
FailedBootstrap ==
  \/ EnsureIdSequence(FALSE)
  \/ \E k \in 0..(Len(TableOrder) - 1) : InitTables(k)

\* C8: a handler whose store statement fails answers 500 with an error body,
\* stores no row, and ends its request without issuing another statement; a
\* failed bootstrap is swallowed; in both cases the process stays up (the
\* bootstrap is not run again, no other request in flight is lost) and
\* requests are served in every reachable state.
C8_FailureIsolation ==
  /\ [][Isolated \/ ~FailedStatement]_vars
  /\ [][FailedBootstrap =>
          /\ boot' = "failed"
          /\ UNCHANGED << rowvars, inflight, resp >>]_vars
  /\ [](ENABLED Request)

\* C8 witness: part_001 with a failed bootstrap has stored an operative, and
\* the last request, a POST, was answered 500 with an error body.
C8_Witness ==
  /\ variant = "part_001"
  /\ boot = "failed"
  /\ battle_ids # {}
  /\ resp = Resp("POST", 500, "error")

\* C9: a PUT that the store executes, for an id that no stored operative
\* has, creates no row, changes no row and is answered 200 with an empty
\* payload; for a stored id, no other row changes and no row appears or
\* disappears.
C9_PutFrame ==
  [][resp'.method = "PUT" =>
       \A id \in IdParams, name \in Names \cup {NULL} :
         ((PutBattle(id, name, TRUE) \/ LegacyPutBattle(id, name, TRUE))
            /\ "battle_ids" \in tables) =>
           /\ UNCHANGED << commendations, rank_changes, awards_catalog, awards >>
           /\ IF id \notin Ids(battle_ids)
              THEN /\ battle_ids' = battle_ids
                   /\ resp' = Resp("PUT", 200, "empty")
              ELSE /\ {r \in battle_ids' : r.id # id} = {r \in battle_ids : r.id # id}
                   /\ Ids(battle_ids') = Ids(battle_ids)
                   /\ resp'.status = 200 =>
                        \E r \in battle_ids' : r.id = id /\ r.name = name]_vars

\* C9 witness: a PUT for an unknown id was answered 200 with an empty
\* payload while another operative is stored.
C9_Witness ==
  /\ resp = Resp("PUT", 200, "empty")
  /\ battle_ids # {}

\* an Origin header that is present and not in allowedOrigins
Foreign(o) == o # NoOrigin /\ o \notin allowedOrigins

\* C10: a request whose Origin is not in the allow-list reaches no handler:
\* it is answered by the cors error and the store is unchanged.
C10_ForeignOriginRejected ==
  [][\A o \in Origins :
       (Foreign(o) /\ Http(o)) =>
         (resp' = Resp("any", 500, "cors") /\ UNCHANGED dbvars)]_vars

\* What does hold, of part_001 alone and with allowedOrigins read as the three
\* entries that were meant: a request whose Origin is not in the list is
\* answered by the cors error with the store unchanged, and the cors
\* rejection never answers a request with an allow-listed or no Origin.
C10_ForeignOriginRejectedInPart001 ==
  [][variant = "part_001" =>
       \A o \in Origins :
         IF Foreign(o)
         THEN Http(o) => (resp' = Resp("any", 500, "cors") /\ UNCHANGED dbvars)
         ELSE CorsReject => ~Http(o)]_vars

\* C10 is violated in server.js and part_000: a POST with a foreign Origin
\* is handled and stores a row.
====
